---- MODULE Spec2Model ----
(***************************************************************************)
(* A model of pyusbtmc.py: the usbtmc transport class (open / write /      *)
(* read / query / close on a character device) and the RigolScope class    *)
(* built on it (acquisition commands, scale queries, waveform decode and   *)
(* scaling, tabular output).                                               *)
(*                                                                         *)
(* Every method of the two classes is an operator that takes the "world"   *)
(* w (the file descriptor, the instrument's output buffer, the I/O trace   *)
(* and the stderr log of the running call, the output streams) and gives   *)
(* back [w, exc, val]: the world after the call, the exception that left   *)
(* the method ("" when it returned) and the value returned.                *)
(* One action per public method applies the operator to the current state  *)
(* (pc = "idle" -> pc = "ret"); Return hands control back to the caller.   *)
(***************************************************************************)
EXTENDS Integers, Sequences, FiniteSets, TLC

VARIABLES
    obj,      \* "none": no RigolScope object exists, "live": one was constructed
    fd,       \* self.FILE: "none", "open", "released" (os.close was called on it),
              \* "leaked" (open, and the object that held it was never built)
    rel,      \* number of os.close calls made on the current self.FILE
    name,     \* self.name
    dev,      \* the instrument's settings and the length of its captured waveform
    files,    \* the output streams: sys.stdout, the file the running call opened
    pc,       \* "idle": the caller is between calls, "ret": a call just ended
    call,     \* the call that ended last: [op, args]
    io,       \* the operating-system calls of that call, in order
    log,      \* what that call printed on sys.stderr
    ret       \* how that call ended: [exc, val]

vars == <<obj, fd, rel, name, dev, files, pc, call, io, log, ret>>

----------------------------------------------------------------------------
(* Program constants *)

RIGOL_WAV_PREAMBLE_LENGTH == 10
ETIMEDOUT == 110
ReadDefaultLength == 4000
QueryDefaultLength == 300
RawDataLength == 9000
ScaleLength == 20
NumPoints == 600

(* Bounds of the model *)

ExtraSamples == 2     \* bytes a short waveform holds beyond the preamble
MaxClose == 2         \* os.close calls on one descriptor
ByteStep == 7         \* the waveforms' sample pattern: byte i is (i * ByteStep) % 256

----------------------------------------------------------------------------
(* Sequences *)

Take(s, n) == IF n >= Len(s) THEN s ELSE SubSeq(s, 1, n)

Min(a, b) == IF a < b THEN a ELSE b

(* Sequencing: Let(v, F) is F applied to the value of v, computed once;    *)
(* Try(m, F) runs F on the result of the call m unless m raised.           *)

Let(v, F(_)) == CHOOSE r \in {F(x) : x \in {v}} : TRUE

Try(m, F(_)) == Let(m, LAMBDA a : IF a.exc # "" THEN a ELSE F(a))

----------------------------------------------------------------------------
(* Rational numbers [n, d] with d > 0 in lowest terms stand for the floats *)

RECURSIVE Gcd(_, _)
Gcd(a, b) == IF b = 0 THEN a ELSE Gcd(b, a % b)

Abs(a) == IF a < 0 THEN -a ELSE a

Sign(a) == IF a < 0 THEN -1 ELSE 1

Rat(n, d) == Let(Gcd(Abs(n), Abs(d)), LAMBDA g : [n |-> (Sign(d) * n) \div g, d |-> Abs(d) \div g])

RInt(k) == [n |-> k, d |-> 1]

RAdd(a, b) == Rat(a.n * b.d + b.n * a.d, a.d * b.d)
RSub(a, b) == Rat(a.n * b.d - b.n * a.d, a.d * b.d)
RMul(a, b) == Rat(a.n * b.n, a.d * b.d)
RDiv(a, b) == Rat(a.n * b.d, a.d * b.n)      \* b.n # 0
RNeg(a) == [n |-> -a.n, d |-> a.d]
RLt(a, b) == a.n * b.d < b.n * a.d

(* A float array is [a, d]: element i is a[i] / d, with d > 0 common to    *)
(* the array and not reduced.                                              *)

At(v, i) == Rat(v.a[i], v.d)

Size(v) == Len(v.a)

FromInts(s) == [a |-> s, d |-> 1]

\* v - r, v / r (r # 0), v * r, element by element, for a scalar r
VSub(v, r) ==
    Let(<<v, r>>, LAMBDA p :
        [a |-> [i \in 1..Len(p[1].a) |-> p[1].a[i] * p[2].d - p[2].n * p[1].d],
         d |-> p[1].d * p[2].d])

VDiv(v, r) ==
    Let(<<v, r>>, LAMBDA p :
        [a |-> [i \in 1..Len(p[1].a) |-> p[1].a[i] * p[2].d * Sign(p[2].n)],
         d |-> p[1].d * Abs(p[2].n)])

VMul(v, r) ==
    Let(<<v, r>>, LAMBDA p :
        [a |-> [i \in 1..Len(p[1].a) |-> p[1].a[i] * p[2].n],
         d |-> p[1].d * p[2].d])

----------------------------------------------------------------------------
(* Bytes. A string is the sequence of its characters' codes; Bytes gives   *)
(* the codes of a tuple of one-character strings.                          *)

Alphabet ==
    <<<<"0", 48>>, <<"1", 49>>, <<"2", 50>>, <<"3", 51>>, <<"4", 52>>, <<"5", 53>>,
      <<"6", 54>>, <<"7", 55>>, <<"8", 56>>, <<"9", 57>>, <<".", 46>>, <<"+", 43>>,
      <<"-", 45>>, <<" ", 32>>, <<"\n", 10>>, <<"x", 120>>, <<"R", 82>>, <<"i", 105>>,
      <<"g", 103>>, <<"o", 111>>, <<"l", 108>>, <<"S", 83>>, <<"T", 84>>, <<"O", 79>>,
      <<"P", 80>>, <<"N", 78>>, <<"M", 77>>>>

Ord(c) == Alphabet[CHOOSE k \in 1..Len(Alphabet) : Alphabet[k][1] = c][2]

Bytes(t) == [i \in 1..Len(t) |-> Ord(t[i])]

(* float(s): Python's conversion of a string. Leading and trailing         *)
(* whitespace is skipped, then an optional sign, then digits with at most   *)
(* one point and at least one digit. The model's strings hold no exponent,  *)
(* "inf" or "nan"; anything else raises ValueError.                         *)

IsDigit(c) == c \in 48..57

IsSpace(c) == c \in {32, 9, 10, 11, 12, 13}

RECURSIVE LStrip(_)
LStrip(s) == IF s # <<>> /\ IsSpace(Head(s)) THEN LStrip(Tail(s)) ELSE s

RECURSIVE RStrip(_)
RStrip(s) ==
    IF s # <<>> /\ IsSpace(s[Len(s)]) THEN RStrip(SubSeq(s, 1, Len(s) - 1)) ELSE s

RECURSIVE DigitsValue(_)
DigitsValue(s) ==
    IF s = <<>> THEN 0
    ELSE 10 * DigitsValue(SubSeq(s, 1, Len(s) - 1)) + (s[Len(s)] - 48)

RECURSIVE Pow10(_)
Pow10(k) == IF k = 0 THEN 1 ELSE 10 * Pow10(k - 1)

AllDigits(s) == \A i \in 1..Len(s) : IsDigit(s[i])

\* The digits of an unsigned number without its point, and how many of
\* them follow the point; ok: the text is a number.
Unsigned(body) ==
    Let({i \in 1..Len(body) : body[i] = 46}, LAMBDA points :
    Let(IF points = {} THEN Len(body) + 1 ELSE CHOOSE i \in points : TRUE, LAMBDA p :
        [ok |-> /\ Cardinality(points) <= 1
                /\ AllDigits(SubSeq(body, 1, p - 1))
                /\ AllDigits(SubSeq(body, p + 1, Len(body)))
                /\ Len(body) - Cardinality(points) >= 1,
         digits |-> SubSeq(body, 1, p - 1) \o SubSeq(body, p + 1, Len(body)),
         places |-> IF points = {} THEN 0 ELSE Len(body) - p]))

float(s) ==
    Let(RStrip(LStrip(s)), LAMBDA t :
    Let(t # <<>> /\ Head(t) \in {43, 45}, LAMBDA signed :
    Let(Unsigned(IF signed THEN Tail(t) ELSE t), LAMBDA u :
        IF u.ok
        THEN [exc |-> "",
              val |-> Rat((IF signed /\ Head(t) = 45 THEN -1 ELSE 1) * DigitsValue(u.digits),
                          Pow10(u.places))]
        ELSE [exc |-> "ValueError", val |-> "None"])))

----------------------------------------------------------------------------
(* The instrument behind the device node. It answers a query command with   *)
(* the setting it holds; the answer waits in w.pending for the read that    *)
(* follows, and an answer that read does not collect is lost. One scale     *)
(* and one offset setting answer both the channel and the timebase          *)
(* queries, and one captured waveform answers both channels.                *)

IdnReply == Bytes(<<"R", "i", "g", "o", "l">>)

ModeReply == Bytes(<<"N", "O", "R", "M">>)

TrigReply == Bytes(<<"S", "T", "O", "P">>)

ScaleReplies ==
    {Bytes(<<"1">>), Bytes(<<"1", "0", "0">>), Bytes(<<"0", ".", "5", "\n">>),
     Bytes(<<"0">>), Bytes(<<"x">>)}

OffsetReplies == {Bytes(<<"0">>), Bytes(<<"-", "1">>)}

Wave(len) == [i \in 1..len |-> (i * ByteStep) % 256]

WaveLengths ==
    {RIGOL_WAV_PREAMBLE_LENGTH - 1,
     RIGOL_WAV_PREAMBLE_LENGTH,
     RIGOL_WAV_PREAMBLE_LENGTH + ExtraSamples,
     RIGOL_WAV_PREAMBLE_LENGTH + NumPoints,
     RIGOL_WAV_PREAMBLE_LENGTH + NumPoints + ExtraSamples}

Instruments == [scal : ScaleReplies, offs : OffsetReplies, wavelen : WaveLengths]

WavCommand(chan) == ":WAV:DATA? CHAN" \o ToString(chan)
ScalCommand(chan) == ":CHAN" \o ToString(chan) \o ":SCAL?"
OffsCommand(chan) == ":CHAN" \o ToString(chan) \o ":OFFS?"

QueryCommands ==
    {"*IDN?", ":TRIGGER:STATUS?", "WAVEFORM:POINTS:MODE?", ":TIM:SCAL?", ":TIM:OFFS?"}
    \cup {WavCommand(c) : c \in 1..2}
    \cup {ScalCommand(c) : c \in 1..2}
    \cup {OffsCommand(c) : c \in 1..2}

DevReply(d, command) ==
    CASE command = "*IDN?" -> IdnReply
      [] command = ":TRIGGER:STATUS?" -> TrigReply
      [] command = "WAVEFORM:POINTS:MODE?" -> ModeReply
      [] command \in {":TIM:SCAL?"} \cup {ScalCommand(c) : c \in 1..2} -> d.scal
      [] command \in {":TIM:OFFS?"} \cup {OffsCommand(c) : c \in 1..2} -> d.offs
      [] command \in {WavCommand(c) : c \in 1..2} -> Wave(d.wavelen)
      [] OTHER -> <<>>

\* What a command that reached the instrument does to it.
DevAccept(w, command) ==
    [w EXCEPT !.pending = IF command \in QueryCommands
                          THEN DevReply(w.dev, command) ELSE @]

----------------------------------------------------------------------------
(* The operating system: os.open, os.write, os.read, os.close on self.FILE. *)
(* w.plan says which of the call's system calls fail, and with which errno. *)
(* A call on a descriptor number that was already closed either fails with  *)
(* EBADF (9) or, the number having been given to another open file, acts    *)
(* on that file (w.stale.alias).                                            *)

\* One system call: its arguments, its errno (0: none), the bytes a read
\* returned, and `on`, the state of the descriptor when the call was made.
Ev(op, command, length, err, data) ==
    [op |-> op, cmd |-> command, len |-> length, err |-> err, data |-> data,
     on |-> "none"]

Traced(w, e) == [w EXCEPT !.io = Append(@, [e EXCEPT !.on = w.fd])]

NoPlan == [at |-> 0, errno |-> 0, sticky |-> FALSE]

Plans(n) ==
    {NoPlan} \cup [at : 1..n, errno : {5, ETIMEDOUT}, sticky : {FALSE}]
             \cup [at : 1..Min(n, 2), errno : {5}, sticky : {TRUE}]

Faulty(w) ==
    /\ w.plan.at # 0
    /\ \/ Len(w.io) + 1 = w.plan.at
       \/ w.plan.sticky /\ Len(w.io) + 1 > w.plan.at

NoStale == [alias |-> FALSE, data |-> <<>>]

StaleOutcomes == {NoStale} \cup [alias : {TRUE}, data : {<<>>, Bytes(<<"x", "x">>)}]

Openable(device) == device = "/dev/usbtmc0"

os_open(w, device) ==
    IF Openable(device)
    THEN [w |-> [Traced(w, Ev("open", device, 0, 0, <<>>))
                   EXCEPT !.fd = "open", !.rel = 0],
          err |-> 0]
    ELSE [w |-> Traced(w, Ev("open", device, 0, 2, <<>>)), err |-> 2]

WriteErrno(w) ==
    CASE w.fd = "released" -> IF w.stale.alias THEN 0 ELSE 9
      [] Faulty(w) -> w.plan.errno
      [] OTHER -> 0

os_write(w, command) ==
    Let(WriteErrno(w), LAMBDA err :
        [w |-> IF err = 0 /\ w.fd = "open"
               THEN DevAccept(Traced(w, Ev("write", command, 0, err, <<>>)), command)
               ELSE Traced(w, Ev("write", command, 0, err, <<>>)),
         err |-> err])

ReadErrno(w, length) ==
    CASE w.fd = "released" -> IF w.stale.alias THEN 0 ELSE 9
      [] Faulty(w) -> w.plan.errno
      [] w.pending = <<>> /\ length > 0 -> ETIMEDOUT
      [] OTHER -> 0

ReadBytes(w, length, err) ==
    CASE err # 0 -> <<>>
      [] w.fd = "released" -> Take(w.stale.data, length)
      [] OTHER -> Take(w.pending, length)

os_read(w, length) ==
    Let(ReadErrno(w, length), LAMBDA err :
    Let(ReadBytes(w, length, err), LAMBDA data :
        [w |-> Traced([w EXCEPT !.pending = <<>>], Ev("read", "", length, err, data)),
         err |-> err,
         data |-> data]))

os_close(w) ==
    Let(IF w.fd = "released" /\ ~w.stale.alias THEN 9 ELSE 0, LAMBDA err :
        [w |-> [Traced(w, Ev("close", "", 0, err, <<>>))
                  EXCEPT !.fd = "released", !.rel = @ + 1],
         err |-> err])

----------------------------------------------------------------------------
(* class usbtmc *)

R(w, exc, val) == [w |-> w, exc |-> exc, val |-> val]

Logged(w, line) == [w EXCEPT !.log = Append(@, line)]

\* Faulty variant of usbtmc_init: the open error is printed and swallowed.
usbtmc_init_swallow(w, device) ==
    Let(os_open(w, device), LAMBDA o :
        IF o.err # 0
        THEN R(Logged(o.w, <<"Error opening device: ", o.err>>), "", "None")
        ELSE R(o.w, "", "None"))

usbtmc_init(w, device) ==
    Let(os_open(w, device), LAMBDA o :
        IF o.err # 0
        THEN R(Logged(o.w, <<"Error opening device: ", o.err>>), "OSError", "None")
        ELSE R(o.w, "", "None"))

\* Faulty variant of write: a failed write is logged and raised.
write_raise(w, command) ==
    Let(os_write(w, command), LAMBDA o :
        IF o.err # 0
        THEN R(Logged(o.w, <<"Write Error: ", o.err>>), "OSError", "None")
        ELSE R(o.w, "", "None"))

\* Faulty variant of write: a failed write is tried once more.
write_retry(w, command) ==
    Let(os_write(w, command), LAMBDA o :
        IF o.err # 0
        THEN Let(os_write(Logged(o.w, <<"Write Error: ", o.err>>), command), LAMBDA p :
                 R(p.w, "", "None"))
        ELSE R(o.w, "", "None"))

write(w, command) ==
    Let(os_write(w, command), LAMBDA o :
        IF o.err # 0
        THEN R(Logged(o.w, <<"Write Error: ", o.err>>), "", "None")
        ELSE R(o.w, "", "None"))

\* Faulty variant of read: only the timeout is handled, any other OSError
\* leaves the method.
read_raise(w, length) ==
    Let(os_read(w, length), LAMBDA o :
        IF o.err # 0
        THEN IF o.err = ETIMEDOUT
             THEN R(Logged(o.w, <<"Read Error: Read timeout">>), "", <<>>)
             ELSE R(o.w, "OSError", "None")
        ELSE R(o.w, "", o.data))

read(w, length) ==
    Let(os_read(w, length), LAMBDA o :
        IF o.err # 0
        THEN IF o.err = ETIMEDOUT
             THEN R(Logged(o.w, <<"Read Error: Read timeout">>), "", <<>>)
             ELSE R(Logged(o.w, <<"Read Error: ", o.err>>), "", <<>>)
        ELSE R(o.w, "", o.data))

\* Faulty variant of query: an empty response is read once more.
query_poll(w, command, length) ==
    Try(write(w, command), LAMBDA a :
    Try(read(a.w, length), LAMBDA b :
        IF b.val = <<>> THEN read(b.w, length) ELSE b))

query(w, command, length) ==
    Try(write(w, command), LAMBDA a : read(a.w, length))

getName(w) == query(w, "*IDN?", QueryDefaultLength)

sendReset(w) == write(w, "*RST")

usbtmc_close(w) ==
    Let(os_close(w), LAMBDA o :
        IF o.err # 0 THEN R(o.w, "OSError", "None") ELSE R(o.w, "", "None"))

----------------------------------------------------------------------------
(* Output streams. w.files.stdout and w.files.out are "open" or "closed"    *)
(* (out: "none" before the call opened a file); w.files.lines are the       *)
(* writes of the running call, each [to, text].                             *)

FileOpenable(filename) == filename # "/nodir/out.txt"

stream_write(w, to, text) ==
    IF w.files[to] # "open"
    THEN R(w, "ValueError", "None")          \* I/O operation on closed file
    ELSE R([w EXCEPT !.files.lines = Append(@, [to |-> to, text |-> text])],
           "", "None")

stream_close(w, to) == [w EXCEPT !.files[to] = "closed"]

----------------------------------------------------------------------------
(* numpy *)

\* numpy.frombuffer(buf, dtype='B', offset=offset)
frombuffer(w, buf, offset) ==
    IF offset > Len(buf) \/ (offset = Len(buf) /\ w.numpy = "strict")
    THEN [exc |-> "ValueError", val |-> "None"]
    ELSE [exc |-> "", val |-> SubSeq(buf, offset + 1, Len(buf))]

\* numpy.zeros(n)
zeros(n) == FromInts([i \in 1..n |-> 0])

\* Faulty variant of linspace: the interval is half open, the step is
\* (stop - start) / num.
linspace_open(start, stop, num) ==
    Let(<<start, RDiv(RSub(stop, start), RInt(num))>>, LAMBDA p :
        [a |-> [i \in 1..num |-> p[1].n * p[2].d + (i - 1) * p[2].n * p[1].d],
         d |-> p[1].d * p[2].d])

\* numpy.linspace(start, stop, num), num > 1: start + i * step, i = 0 .. num-1
linspace(start, stop, num) ==
    Let(<<start, RDiv(RSub(stop, start), RInt(num - 1))>>, LAMBDA p :
        [a |-> [i \in 1..num |-> p[1].n * p[2].d + (i - 1) * p[2].n * p[1].d],
         d |-> p[1].d * p[2].d])

----------------------------------------------------------------------------
(* class RigolScope(usbtmc) *)

RigolScope_init(w, device) ==
    Try(usbtmc_init(w, device), LAMBDA a :
    Try(getName(a.w), LAMBDA b :
        stream_write([b.w EXCEPT !.name = b.val], "stdout",
                     <<"# Connected to: ", b.val>>)))

stop(w) == write(w, ":STOP")

\* Faulty variant of run: the acquisition is stopped first, then started.
run_restart(w) == Try(write(w, ":STOP"), LAMBDA a : write(a.w, ":RUN"))

run(w) == write(w, ":RUN")

forceTrigger(w) == write(w, ":KEY:FORC")

unlock(w) == forceTrigger(w)

\* Faulty variant of close: the descriptor is released before the unlock.
RigolScope_close_early(w) ==
    Try(usbtmc_close(w), LAMBDA a : unlock(a.w))

RigolScope_close(w) ==
    Try(unlock(w), LAMBDA a : usbtmc_close(a.w))

\* Faulty variant of readRawData: the preamble and the samples are fetched
\* by two reads.
readRawData_split(w, chan) ==
    Try(write(w, WavCommand(chan)), LAMBDA a :
    Try(read(a.w, RIGOL_WAV_PREAMBLE_LENGTH), LAMBDA b :
    Try(read(b.w, RawDataLength), LAMBDA c :
        R(c.w, "", b.val \o c.val))))

readRawData(w, chan) ==
    Try(write(w, WavCommand(chan)), LAMBDA a : read(a.w, RawDataLength))

getStatus(w) == query(w, ":TRIGGER:STATUS?", QueryDefaultLength)

setWavePointsMode(w, mode) == write(w, "WAVEFORM:POINTS:MODE " \o mode)

getWavePointsMode(w) == query(w, "WAVEFORM:POINTS:MODE?", QueryDefaultLength)

readData(w, chan) ==
    Try(readRawData(w, chan), LAMBDA a :
    Let(frombuffer(a.w, a.val, RIGOL_WAV_PREAMBLE_LENGTH), LAMBDA b :
        R(a.w, b.exc, b.val)))

\* Faulty variant of floatQuery: a response that is no number counts as 0.
floatQuery_default(w, command) ==
    Try(query(w, command, ScaleLength), LAMBDA a :
    Let(float(a.val), LAMBDA b :
        IF b.exc # "" THEN R(a.w, "", RInt(0)) ELSE R(a.w, "", b.val)))

\* float(self.query(command, 20))
floatQuery(w, command) ==
    Try(query(w, command, ScaleLength), LAMBDA a :
    Let(float(a.val), LAMBDA b :
        R(a.w, b.exc, b.val)))

getVoltScale(w, chan) == floatQuery(w, ScalCommand(chan))

getVoltOffset(w, chan) == floatQuery(w, OffsCommand(chan))

getTimeScale(w) == floatQuery(w, ":TIM:SCAL?")

getTimeOffset(w) == floatQuery(w, ":TIM:OFFS?")

\* Faulty variant of invert: the samples are used as they come.
invert_skip(data) == data

\* data = 255 - data, on the array of unsigned bytes
invert(data) == Let(data, LAMBDA x : [i \in 1..Len(x) |-> (255 - x[i]) % 256])

\* data = (data - 130.0 - voltoffset/voltscale*25) / 25 * voltscale
scale(data, voltscale, voltoffset) ==
    VMul(VDiv(VSub(VSub(FromInts(data), RInt(130)),
                   RMul(RDiv(voltoffset, voltscale), RInt(25))),
              RInt(25)),
         voltscale)

\* Faulty variant of getScaledWaveform: the scale and offset are not asked
\* for again, the values 1 and 0 of an earlier call are used.
getScaledWaveform_cached(w, chan) ==
    Try(readData(w, chan), LAMBDA a :
        R(a.w, "", scale(invert(a.val), RInt(1), RInt(0))))

getScaledWaveform(w, chan) ==
    Try(readData(w, chan), LAMBDA a :
    Try(getVoltScale(a.w, chan), LAMBDA b :
    Try(getVoltOffset(b.w, chan), LAMBDA c :
        IF b.val.n = 0 THEN R(c.w, "ZeroDivisionError", "None")
        ELSE R(c.w, "", scale(invert(a.val), b.val, c.val)))))

\* Faulty variant of getTimeAxis: the time offset is added to the axis.
getTimeAxis_shifted(w) ==
    Try(getTimeScale(w), LAMBDA a :
    Try(getTimeOffset(a.w), LAMBDA b :
    Let(RMul(RDiv(RInt(300), RInt(50)), a.val), LAMBDA timespan :
        R(b.w, "", linspace(RAdd(RNeg(timespan), b.val), RAdd(timespan, b.val),
                            NumPoints)))))

getTimeAxis(w) ==
    Try(getTimeScale(w), LAMBDA a :
    Try(getTimeOffset(a.w), LAMBDA b :
    Let(RMul(RDiv(RInt(300), RInt(50)), a.val), LAMBDA timespan :
        R(b.w, "", linspace(RNeg(timespan), timespan, NumPoints)))))

\* The loop over range(time.size), on an open stream: it writes one row per
\* index and stops with IndexError at the first index that one of the
\* channel arrays does not have.
writeRows(w, to, data1, data2, time) ==
    Let(Min(Size(time), Min(Size(data1), Size(data2))), LAMBDA n :
    Let([w EXCEPT !.files.lines = @ \o
            [i \in 1..n |->
               [to |-> to,
                text |-> <<[n |-> time.a[i], d |-> time.d],
                           [n |-> data1.a[i], d |-> data1.d],
                           [n |-> data2.a[i], d |-> data2.d]>>]]], LAMBDA w1 :
        IF n < Size(time) THEN R(w1, "IndexError", "None") ELSE R(w1, "", "None")))

writeChannelDataToFile(w, to, data1, data2, time) ==
    Try(stream_write(w, to, "# Time     \tChannel 1\tChannel 2\n"), LAMBDA a :
        writeRows(a.w, to, data1, data2, time))

\* A channel selector is a Python value: an int or a string.
PyInt(k) == [t |-> "int", i |-> k, s |-> ""]
PyStr(s) == [t |-> "str", i |-> 0, s |-> s]

\* Faulty variant of Selected: 'BOTH' is not turned into 3.
Selected_strict(chan) == chan

\* if chan=='BOTH': chan = 3
Selected(chan) == IF chan = PyStr("BOTH") THEN PyInt(3) ELSE chan

\* fd = sys.stdout, or fd = open(filename, 'w')
Stream(filename) == IF filename = "" THEN "stdout" ELSE "out"

Opened(w, filename) ==
    IF filename = "" THEN w ELSE [w EXCEPT !.files.out = "open"]

writeWaveformToFile(w, filename, chan) ==
    IF filename # "" /\ ~FileOpenable(filename) THEN R(w, "IOError", "None")
    ELSE
    Try(getTimeAxis(Opened(w, filename)), LAMBDA t :
    Try(IF Selected(chan) \in {PyInt(1), PyInt(3)}
        THEN getScaledWaveform(t.w, 1)
        ELSE R(t.w, "", zeros(Size(t.val))), LAMBDA d1 :
    Try(IF Selected(chan) \in {PyInt(2), PyInt(3)}
        THEN getScaledWaveform(d1.w, 2)
        ELSE R(d1.w, "", zeros(Size(t.val))), LAMBDA d2 :
    Try(writeChannelDataToFile(d2.w, Stream(filename), d1.val, d2.val, t.val),
        LAMBDA e :
        R(stream_close(e.w, Stream(filename)), "", "None")))))

----------------------------------------------------------------------------
(* The state machine: a caller that holds at most one RigolScope and calls  *)
(* its methods one after the other, and the instrument's front panel.       *)

Devices == {"/dev/usbtmc0", "/dev/usbtmc9"}

Filenames == {"", "out.txt", "/nodir/out.txt"}

Selectors == {PyInt(0), PyInt(1), PyInt(2), PyInt(3), PyStr("BOTH")}

WriteCommands == {":RUN", ":STOP", ":KEY:FORC", "*RST", "*IDN?"}

Lengths(default) == {0, 1, default}

NoCall == [op |-> "none", args |-> <<>>]

NoRet == [exc |-> "", val |-> "None"]

Init ==
    /\ obj = "none"
    /\ fd = "none"
    /\ rel = 0
    /\ name = "None"
    /\ dev \in Instruments
    /\ files = [stdout |-> "open", out |-> "none", lines |-> <<>>]
    /\ pc = "idle"
    /\ call = NoCall
    /\ io = <<>>
    /\ log = <<>>
    /\ ret = NoRet

\* The inputs of one call: which system calls fail (n: how many the call can
\* make), and what a call on a closed descriptor number does.
PlansNow(n) == IF fd = "released" THEN {NoPlan} ELSE Plans(n)

StaleNow == IF fd = "released" THEN StaleOutcomes ELSE {NoStale}

World(plan, stale) ==
    [fd |-> fd, rel |-> rel, name |-> name, pending |-> <<>>, dev |-> dev,
     files |-> files, numpy |-> "lenient", io |-> <<>>, log |-> <<>>,
     plan |-> plan, stale |-> stale]

\* The numpy build the program runs with: a "strict" one refuses an offset
\* equal to the buffer's length, a "lenient" one gives the empty array.
NumpyBuilds == {"strict", "lenient"}

With(w, np) == [w EXCEPT !.numpy = np]

Commit(op, args, r) ==
    /\ pc' = "ret"
    /\ call' = [op |-> op, args |-> args]
    /\ fd' = r.w.fd
    /\ rel' = r.w.rel
    /\ name' = r.w.name
    /\ dev' = r.w.dev
    /\ files' = r.w.files
    /\ io' = r.w.io
    /\ log' = r.w.log
    /\ ret' = [exc |-> r.exc, val |-> r.val]

\* A constructor that raised leaves the caller no object: the descriptor it
\* had opened stays open with nothing to close it, self.name is gone.
Built(r) ==
    IF r.exc = "" THEN r
    ELSE [r EXCEPT !.w.fd = IF @ = "open" THEN "leaked" ELSE "none",
                   !.w.rel = 0, !.w.name = "None"]

Method == pc = "idle" /\ obj = "live"

Construct ==
    /\ pc = "idle"
    /\ obj = "none" \/ fd = "released"
    /\ \E device \in Devices, plan \in Plans(3) :
          \E r \in {RigolScope_init(World(plan, NoStale), device)} :
             /\ Commit("RigolScope", <<device>>, Built(r))
             /\ obj' = IF r.exc = "" THEN "live" ELSE "none"

Write ==
    /\ Method
    /\ \E command \in WriteCommands, plan \in PlansNow(1), stale \in StaleNow :
          \E r \in {write(World(plan, stale), command)} :
             Commit("write", <<command>>, r)
    /\ UNCHANGED obj

Read ==
    /\ Method
    /\ \E length \in Lengths(ReadDefaultLength), plan \in PlansNow(1),
          stale \in StaleNow :
          \E r \in {read(World(plan, stale), length)} :
             Commit("read", <<length>>, r)
    /\ UNCHANGED obj

Query ==
    /\ Method
    /\ \E command \in {"*IDN?", ":TIM:SCAL?", WavCommand(1), ":RUN"},
          length \in Lengths(QueryDefaultLength),
          plan \in PlansNow(2), stale \in StaleNow :
          \E r \in {query(World(plan, stale), command, length)} :
             Commit("query", <<command, length>>, r)
    /\ UNCHANGED obj

GetName ==
    /\ Method
    /\ \E plan \in PlansNow(2), stale \in StaleNow :
          \E r \in {getName(World(plan, stale))} :
             Commit("getName", <<>>, r)
    /\ UNCHANGED obj

SendReset ==
    /\ Method
    /\ \E plan \in PlansNow(1), stale \in StaleNow :
          \E r \in {sendReset(World(plan, stale))} :
             Commit("sendReset", <<>>, r)
    /\ UNCHANGED obj

Stop ==
    /\ Method
    /\ \E plan \in PlansNow(1), stale \in StaleNow :
          \E r \in {stop(World(plan, stale))} :
             Commit("stop", <<>>, r)
    /\ UNCHANGED obj

Run ==
    /\ Method
    /\ \E plan \in PlansNow(1), stale \in StaleNow :
          \E r \in {run(World(plan, stale))} :
             Commit("run", <<>>, r)
    /\ UNCHANGED obj

ForceTrigger ==
    /\ Method
    /\ \E plan \in PlansNow(1), stale \in StaleNow :
          \E r \in {forceTrigger(World(plan, stale))} :
             Commit("forceTrigger", <<>>, r)
    /\ UNCHANGED obj

Unlock ==
    /\ Method
    /\ \E plan \in PlansNow(1), stale \in StaleNow :
          \E r \in {unlock(World(plan, stale))} :
             Commit("unlock", <<>>, r)
    /\ UNCHANGED obj

Close ==
    /\ Method
    /\ rel < MaxClose
    /\ \E plan \in PlansNow(1), stale \in StaleNow :
          \E r \in {RigolScope_close(World(plan, stale))} :
             Commit("close", <<>>, r)
    /\ UNCHANGED obj

ReadRawData ==
    /\ Method
    /\ \E chan \in 1..2, plan \in PlansNow(2), stale \in StaleNow :
          \E r \in {readRawData(World(plan, stale), chan)} :
             Commit("readRawData", <<chan>>, r)
    /\ UNCHANGED obj

GetStatus ==
    /\ Method
    /\ \E plan \in PlansNow(2), stale \in StaleNow :
          \E r \in {getStatus(World(plan, stale))} :
             Commit("getStatus", <<>>, r)
    /\ UNCHANGED obj

SetWavePointsMode ==
    /\ Method
    /\ \E mode \in {"NORM", "RAW", "MAX"}, plan \in PlansNow(1), stale \in StaleNow :
          \E r \in {setWavePointsMode(World(plan, stale), mode)} :
             Commit("setWavePointsMode", <<mode>>, r)
    /\ UNCHANGED obj

GetWavePointsMode ==
    /\ Method
    /\ \E plan \in PlansNow(2), stale \in StaleNow :
          \E r \in {getWavePointsMode(World(plan, stale))} :
             Commit("getWavePointsMode", <<>>, r)
    /\ UNCHANGED obj

ReadData ==
    /\ Method
    /\ \E chan \in 1..2, plan \in PlansNow(2), stale \in StaleNow :
          \E np \in NumpyBuilds :
          \E r \in {readData(With(World(plan, stale), np), chan)} :
             Commit("readData", <<chan>>, r)
    /\ UNCHANGED obj

GetVoltScale ==
    /\ Method
    /\ \E chan \in 1..2, plan \in PlansNow(2), stale \in StaleNow :
          \E r \in {getVoltScale(World(plan, stale), chan)} :
             Commit("getVoltScale", <<chan>>, r)
    /\ UNCHANGED obj

GetVoltOffset ==
    /\ Method
    /\ \E chan \in 1..2, plan \in PlansNow(2), stale \in StaleNow :
          \E r \in {getVoltOffset(World(plan, stale), chan)} :
             Commit("getVoltOffset", <<chan>>, r)
    /\ UNCHANGED obj

GetTimeScale ==
    /\ Method
    /\ \E plan \in PlansNow(2), stale \in StaleNow :
          \E r \in {getTimeScale(World(plan, stale))} :
             Commit("getTimeScale", <<>>, r)
    /\ UNCHANGED obj

GetTimeOffset ==
    /\ Method
    /\ \E plan \in PlansNow(2), stale \in StaleNow :
          \E r \in {getTimeOffset(World(plan, stale))} :
             Commit("getTimeOffset", <<>>, r)
    /\ UNCHANGED obj

GetScaledWaveform ==
    /\ Method
    /\ \E chan \in 1..2, plan \in PlansNow(6), stale \in StaleNow :
          \E np \in NumpyBuilds :
          \E r \in {getScaledWaveform(With(World(plan, stale), np), chan)} :
             Commit("getScaledWaveform", <<chan>>, r)
    /\ UNCHANGED obj

GetTimeAxis ==
    /\ Method
    /\ \E plan \in PlansNow(4), stale \in StaleNow :
          \E r \in {getTimeAxis(World(plan, stale))} :
             Commit("getTimeAxis", <<>>, r)
    /\ UNCHANGED obj

\* How many system calls writeWaveformToFile makes at most: two time
\* queries and three queries per channel read.
SystemCalls(chan) ==
    CASE chan \in {PyInt(3), PyStr("BOTH")} -> 16
      [] chan \in {PyInt(1), PyInt(2)} -> 10
      [] OTHER -> 4

WriteWaveformToFile ==
    /\ Method
    /\ \E filename \in Filenames, chan \in Selectors :
       \E plan \in PlansNow(SystemCalls(chan)), stale \in StaleNow :
          \E np \in NumpyBuilds :
          \E r \in {writeWaveformToFile(With(World(plan, stale), np), filename, chan)} :
             Commit("writeWaveformToFile", <<filename, chan>>, r)
    /\ UNCHANGED obj

\* The call's result goes to the caller; the file object of the call is
\* dropped with the call's frame.
Return ==
    /\ pc = "ret"
    /\ pc' = "idle"
    /\ call' = NoCall
    /\ io' = <<>>
    /\ log' = <<>>
    /\ ret' = NoRet
    /\ files' = [files EXCEPT !.out = "none", !.lines = <<>>]
    /\ UNCHANGED <<obj, fd, rel, name, dev>>

\* Someone turns a knob on the front panel, or a new acquisition completes.
Knob ==
    /\ pc = "idle"
    /\ dev' \in Instruments \ {dev}
    /\ UNCHANGED <<obj, fd, rel, name, files, pc, call, io, log, ret>>

Next ==
    \/ Construct
    \/ Write
    \/ Read
    \/ Query
    \/ GetName
    \/ SendReset
    \/ Stop
    \/ Run
    \/ ForceTrigger
    \/ Unlock
    \/ Close
    \/ ReadRawData
    \/ GetStatus
    \/ SetWavePointsMode
    \/ GetWavePointsMode
    \/ ReadData
    \/ GetVoltScale
    \/ GetVoltOffset
    \/ GetTimeScale
    \/ GetTimeOffset
    \/ GetScaledWaveform
    \/ GetTimeAxis
    \/ WriteWaveformToFile
    \/ Return
    \/ Knob

Spec == Init /\ [][Next]_vars

----------------------------------------------------------------------------
(* Properties. They are stated on the state in which a call has just ended  *)
(* (pc = "ret"): call is the call, io its system calls, log its stderr      *)
(* output, ret its result.                                                  *)

Ended(op) == pc = "ret" /\ call.op = op

\* C1: query(command, length) makes exactly one write of command and then
\* exactly one read of at most length bytes, in that order, with no second
\* read, and returns what that read gave, also when it is short or empty.
QueryWriteThenRead ==
    Ended("query") =>
        /\ Len(io) = 2
        /\ io[1].op = "write" /\ io[1].cmd = call.args[1]
        /\ io[2].op = "read" /\ io[2].len = call.args[2]
        /\ Len(io[2].data) <= call.args[2]
        /\ ret = [exc |-> "", val |-> io[2].data]

\* A query whose read timed out gave the caller the empty response.
QueryEmptyResponse ==
    /\ Ended("query")
    /\ io[1].err = 0
    /\ io[2].err = ETIMEDOUT
    /\ ret.val = <<>>

\* C2: close writes :KEY:FORC, then releases the descriptor, and makes no
\* other system call; the release happens also when the write failed.
CloseUnlocksThenReleases ==
    Ended("close") =>
        /\ Len(io) = 2
        /\ io[1].op = "write" /\ io[1].cmd = ":KEY:FORC"
        /\ io[2].op = "close"
        /\ fd = "released"

\* A close whose unlock write failed on an open descriptor, which it released.
CloseAfterFailedUnlock ==
    /\ Ended("close")
    /\ io[1].on = "open" /\ io[1].err # 0
    /\ io[2].on = "open" /\ io[2].err = 0
    /\ fd = "released"

\* C3: read never raises. When os.read fails, with ETIMEDOUT or with any
\* other errno, read returns the empty string; the line it prints tells the
\* timeout from the other failures.
ReadNeverRaises ==
    Ended("read") =>
        /\ ret.exc = ""
        /\ io[1].err # 0 =>
             /\ ret.val = <<>>
             /\ Len(log) = 1
             /\ log[1] = <<"Read Error: Read timeout">> <=> io[1].err = ETIMEDOUT
             /\ log[1] = <<"Read Error: ", io[1].err>> <=> io[1].err # ETIMEDOUT

\* A read that failed with an errno other than the timeout returned "".
ReadFailedNotTimeout ==
    /\ Ended("read")
    /\ io[1].on = "open"
    /\ io[1].err \notin {0, ETIMEDOUT}
    /\ ret = [exc |-> "", val |-> <<>>]

\* C4 as stated: when os.write fails, write raises to its caller, after one
\* attempt.
WriteFailureRaises ==
    Ended("write") /\ io[1].err # 0 => Len(io) = 1 /\ ret.exc # ""

\* C4, amended: write makes exactly one os.write of the command; when it
\* fails, write prints "Write Error: " with the cause and returns normally.
WriteOnceAndSwallows ==
    Ended("write") =>
        /\ Len(io) = 1
        /\ io[1].op = "write" /\ io[1].cmd = call.args[1]
        /\ ret = [exc |-> "", val |-> "None"]
        /\ log = IF io[1].err # 0 THEN <<<<"Write Error: ", io[1].err>>>> ELSE <<>>

\* A write on an open descriptor that failed.
WriteFailed ==
    /\ Ended("write")
    /\ io[1].on = "open"
    /\ io[1].err # 0

\* C5: the descriptor is released at most once, no system call is made on a
\* descriptor that was released, and a read, write or query after close
\* raises.
NoUseAfterRelease ==
    pc = "ret" =>
        /\ rel <= 1
        /\ \A i \in 1..Len(io) : io[i].op # "open" => io[i].on # "released"
        /\ \A i \in 1..Len(io) :
              io[i].on = "released" /\ call.op \in {"read", "write", "query"}
                 => ret.exc # ""

\* C6: when the open fails, the constructor raises the OSError, makes no
\* other system call, and leaves no object and no descriptor.
OpenFailureStopsConstruction ==
    Ended("RigolScope") /\ io[1].err # 0 =>
        /\ ret.exc = "OSError"
        /\ Len(io) = 1
        /\ obj = "none"
        /\ fd = "none"

\* A constructor whose open failed.
OpenFailed ==
    /\ Ended("RigolScope")
    /\ io[1].op = "open" /\ io[1].err # 0
    /\ ret.exc = "OSError"

\* C7: when the open succeeds, the constructor writes *IDN?, reads at most
\* 300 bytes, makes no other system call, and succeeds whatever was read.
ConstructIdentifies ==
    Ended("RigolScope") /\ io[1].err = 0 =>
        /\ Len(io) = 3
        /\ io[2].op = "write" /\ io[2].cmd = "*IDN?"
        /\ io[3].op = "read" /\ io[3].len = QueryDefaultLength
        /\ ret.exc = ""
        /\ obj = "live"
        /\ name = io[3].data

\* C8: in every call but a bare read or write, each read comes right after
\* the write of the command it answers (the read's length is that
\* command's), and each query command written is read right after.
CommandOf(e) ==
    CASE e.len = RawDataLength -> {WavCommand(c) : c \in 1..2}
      [] e.len = ScaleLength ->
            {":TIM:SCAL?", ":TIM:OFFS?"} \cup {ScalCommand(c) : c \in 1..2}
                                         \cup {OffsCommand(c) : c \in 1..2}
      [] e.len = QueryDefaultLength ->
            {"*IDN?", ":TRIGGER:STATUS?", "WAVEFORM:POINTS:MODE?"}
      [] OTHER -> {}

Rendezvous ==
    pc = "ret" /\ call.op \notin {"read", "write", "query"} =>
        /\ \A i \in 1..Len(io) :
              io[i].op = "read" =>
                 /\ i > 1
                 /\ io[i - 1].op = "write"
                 /\ io[i - 1].cmd \in CommandOf(io[i])
        /\ \A i \in 1..Len(io) :
              io[i].op = "write" /\ io[i].cmd \in QueryCommands =>
                 /\ i < Len(io)
                 /\ io[i + 1].op = "read"

\* A two-channel writeWaveformToFile that made all its eight queries.
EightQueries ==
    /\ Ended("writeWaveformToFile")
    /\ Len(io) = 16
    /\ ret.exc = ""

\* C9: each of getVoltScale, getVoltOffset, getTimeScale, getTimeOffset
\* makes one query of its command with a 20-byte read; when the response is
\* no number (the empty response of a timeout among them) the call raises
\* ValueError, and a value is returned only for a response that is a number.
ScaleCommand(c) ==
    CASE c.op = "getVoltScale" -> ScalCommand(c.args[1])
      [] c.op = "getVoltOffset" -> OffsCommand(c.args[1])
      [] c.op = "getTimeScale" -> ":TIM:SCAL?"
      [] c.op = "getTimeOffset" -> ":TIM:OFFS?"

IsNumber(s) == \E i \in 1..Len(s) : IsDigit(s[i])

ScaleQueriesRaiseOnMalformed ==
    pc = "ret" /\ call.op \in {"getVoltScale", "getVoltOffset",
                                "getTimeScale", "getTimeOffset"} =>
        /\ Len(io) = 2
        /\ io[1].op = "write" /\ io[1].cmd = ScaleCommand(call)
        /\ io[2].op = "read" /\ io[2].len = ScaleLength
        /\ ~IsNumber(io[2].data) => ret = [exc |-> "ValueError", val |-> "None"]
        /\ ret.exc = "" => IsNumber(io[2].data) /\ ret.val = float(io[2].data).val

\* A scale query whose read timed out raised ValueError.
ScaleQueryTimedOut ==
    /\ Ended("getVoltScale")
    /\ io[2].err = ETIMEDOUT
    /\ ret.exc = "ValueError"

\* C10: readData on a raw waveform of L bytes gives the L-10 bytes after the
\* preamble when L >= 10 and the empty array, not an error, when L < 10.
DecodeDropsPreamble ==
    Ended("readData") =>
        /\ ret.exc = ""
        /\ ret.val = IF Len(io[2].data) >= RIGOL_WAV_PREAMBLE_LENGTH
                     THEN SubSeq(io[2].data, RIGOL_WAV_PREAMBLE_LENGTH + 1,
                                 Len(io[2].data))
                     ELSE <<>>

\* The header line of the table.
Header == "# Time     \tChannel 1\tChannel 2\n"

\* Channel k is one the selector asks for.
Wanted(chan, k) == Selected(chan) \in {PyInt(k), PyInt(3)}

\* A writeWaveformToFile call in which nothing but the number of samples is
\* out of the ordinary: every system call succeeded on the open descriptor,
\* the waveform has its preamble and at least one sample, the scale is a
\* number other than 0, and the output stream could be opened (standard
\* output took the header).
OrdinaryTableCall ==
    /\ Ended("writeWaveformToFile")
    /\ dev.wavelen > RIGOL_WAV_PREAMBLE_LENGTH
    /\ \A i \in 1..Len(io) : io[i].err = 0 /\ io[i].on = "open"
    /\ float(dev.scal).exc = "" /\ float(dev.scal).val.n # 0
    /\ float(dev.offs).exc = ""
    /\ IF call.args[1] = "" THEN files.lines # <<>> ELSE FileOpenable(call.args[1])

\* C11: for every channel selector and every length of the raw waveform,
\* writeWaveformToFile returns having written the header and exactly 600
\* rows of 3 columns, the column of a channel not asked for being all zeros.
TableHasSixHundredRows ==
    OrdinaryTableCall =>
        /\ ret.exc = ""
        /\ Len(files.lines) = 1 + NumPoints
        /\ files.lines[1].text = Header
        /\ \A i \in 2..Len(files.lines) :
              /\ Len(files.lines[i].text) = 3
              /\ \A k \in 1..2 :
                    ~Wanted(call.args[2], k) => files.lines[i].text[k + 1].n = 0

\* An acquisition in which a read failed or timed out and nothing else went
\* wrong: the descriptor is open, every write succeeded, the output file
\* could be opened.
AcquisitionReadFailed ==
    /\ pc = "ret"
    /\ \/ call.op = "getScaledWaveform"
       \/ /\ call.op = "writeWaveformToFile"
          /\ call.args[1] # "" /\ FileOpenable(call.args[1])
    /\ \A i \in 1..Len(io) :
          io[i].on = "open" /\ (io[i].op = "write" => io[i].err = 0)
    /\ \E i \in 1..Len(io) : io[i].op = "read" /\ io[i].err # 0

\* C12: a failed or timed-out read during getScaledWaveform or
\* writeWaveformToFile gives an empty read and the operation still returns
\* normally: it does not raise part-way through the acquisition.
ReadFailureDegrades ==
    AcquisitionReadFailed =>
        /\ \A i \in 1..Len(io) : io[i].err # 0 => io[i].data = <<>>
        /\ ret.exc = ""

\* The commands the call wrote, in order.
Written == [i \in 1..Len(SelectSeq(io, LAMBDA e : e.op = "write")) |->
               SelectSeq(io, LAMBDA e : e.op = "write")[i].cmd]

\* s is the beginning of t.
IsPrefix(s, t) == Len(s) <= Len(t) /\ SubSeq(t, 1, Len(s)) = s

\* The samples of a raw waveform: what follows the preamble.
Samples(raw) == SubSeq(raw, RIGOL_WAV_PREAMBLE_LENGTH + 1, Len(raw))

\* C13: nothing is cached. Every getScaledWaveform(chan) that returns has
\* asked :CHAN<chan>:SCAL? and :CHAN<chan>:OFFS? in that call and scaled with
\* the two answers of that call; every getTimeAxis that returns has asked
\* :TIM:SCAL? and :TIM:OFFS? in that call and built the axis from that
\* call's answer. A call that raises has written a beginning of the same
\* commands.
NeverCached ==
    /\ Ended("getScaledWaveform") =>
          /\ IsPrefix(Written, <<WavCommand(call.args[1]),
                                 ScalCommand(call.args[1]),
                                 OffsCommand(call.args[1])>>)
          /\ ret.exc = "" =>
                /\ Len(io) = 6
                /\ io[3].cmd = ScalCommand(call.args[1]) /\ io[4].op = "read"
                /\ io[5].cmd = OffsCommand(call.args[1]) /\ io[6].op = "read"
                /\ ret.val = scale(invert(Samples(io[2].data)),
                                   float(io[4].data).val, float(io[6].data).val)
    /\ Ended("getTimeAxis") =>
          /\ IsPrefix(Written, <<":TIM:SCAL?", ":TIM:OFFS?">>)
          /\ ret.exc = "" =>
                /\ Len(io) = 4
                /\ io[1].cmd = ":TIM:SCAL?" /\ io[2].op = "read"
                /\ io[3].cmd = ":TIM:OFFS?" /\ io[4].op = "read"
                /\ ret.val = linspace(RMul(RInt(-6), float(io[2].data).val),
                                      RMul(RInt(6), float(io[2].data).val),
                                      NumPoints)

\* A getScaledWaveform that returned 600 samples scaled with the scale 0.5
\* and the offset -1 the instrument reported in that call.
ScaledWithReportedValues ==
    /\ Ended("getScaledWaveform")
    /\ ret.exc = ""
    /\ Size(ret.val) = NumPoints
    /\ io[4].data = Bytes(<<"0", ".", "5", "\n">>)
    /\ io[6].data = Bytes(<<"-", "1">>)

\* The value the formula gives for one sample s, scale vs # 0 and offset vo:
\* ((255 - s) - 130 - (vo / vs) * 25) / 25 * vs
Volts(s, vs, vo) ==
    RMul(RDiv(RSub(RSub(RInt(255 - s), RInt(130)),
                   RMul(RDiv(vo, vs), RInt(25))),
              RInt(25)),
         vs)

\* Element i of the float array v is the number r.
IsAt(v, i, r) == v.a[i] * r.d = r.n * v.d

\* C14: the array getScaledWaveform returns has, for every sample s of the
\* waveform, the value ((255 - s) - 130 - (voltOffset / voltScale) * 25) / 25
\* * voltScale, for the scale and offset the instrument reported, with 255 - s
\* in 0..255; for scale 100, offset 0 and sample 130 it is exactly -20. (A
\* reported scale of 0, for which the formula has no value, raises
\* ZeroDivisionError.)
ScaleVoltageFormula ==
    /\ Ended("getScaledWaveform") /\ ret.exc = "" =>
          /\ float(io[4].data).val.n # 0
          /\ Size(ret.val) = Len(Samples(io[2].data))
          /\ \A i \in 1..Len(Samples(io[2].data)) :
                /\ Samples(io[2].data)[i] \in 0..255
                /\ 255 - Samples(io[2].data)[i] \in 0..255
                /\ IsAt(ret.val, i, Volts(Samples(io[2].data)[i],
                                          float(io[4].data).val,
                                          float(io[6].data).val))
                /\ /\ Samples(io[2].data)[i] = 130
                   /\ float(io[4].data).val = RInt(100)
                   /\ float(io[6].data).val = RInt(0)
                   => IsAt(ret.val, i, RInt(-20))
    /\ /\ Ended("getScaledWaveform")
       /\ Len(io) = 6
       /\ float(io[4].data).exc = "" /\ float(io[4].data).val.n = 0
       /\ float(io[6].data).exc = ""
       => ret.exc = "ZeroDivisionError"

\* A waveform with a sample 130 was scaled with scale 100 and offset 0, and
\* the value for that sample is -20.
SampleScaledToMinusTwenty ==
    /\ Ended("getScaledWaveform")
    /\ ret.exc = ""
    /\ float(io[4].data).val = RInt(100)
    /\ float(io[6].data).val = RInt(0)
    /\ \E i \in 1..Len(Samples(io[2].data)) :
          Samples(io[2].data)[i] = 130 /\ IsAt(ret.val, i, RInt(-20))

\* What the time axis is whatever the time scale: 600 evenly spaced points,
\* symmetric about zero, from -6 * timeScale to +6 * timeScale, for the time
\* scale reported in the call and whatever time offset was reported.
AxisSpansSixDivisions ==
    /\ Size(ret.val) = NumPoints
    /\ \A i \in 2..(NumPoints - 1) :
          ret.val.a[i + 1] - ret.val.a[i] = ret.val.a[i] - ret.val.a[i - 1]
    /\ \A i \in 1..NumPoints : ret.val.a[i] = -ret.val.a[NumPoints + 1 - i]
    /\ IsAt(ret.val, 1, RMul(RInt(-6), float(io[2].data).val))
    /\ IsAt(ret.val, NumPoints, RMul(RInt(6), float(io[2].data).val))

AxisIncreases == \A i \in 1..(NumPoints - 1) : ret.val.a[i] < ret.val.a[i + 1]

\* C15 as stated: every axis getTimeAxis returns has 600 evenly spaced,
\* strictly increasing points symmetric about zero, from -6 * timeScale to
\* +6 * timeScale, whatever the time offset.
TimeAxisIncreasing ==
    Ended("getTimeAxis") /\ ret.exc = "" => AxisSpansSixDivisions /\ AxisIncreases

\* C15, amended: every axis getTimeAxis returns has 600 evenly spaced points
\* symmetric about zero, from -6 * timeScale to +6 * timeScale, whatever the
\* time offset; the points are strictly increasing when timeScale > 0, and
\* all 0 when timeScale = 0.
TimeAxisShape ==
    Ended("getTimeAxis") /\ ret.exc = "" =>
        /\ AxisSpansSixDivisions
        /\ float(io[2].data).val.n > 0 => AxisIncreases
        /\ float(io[2].data).val.n = 0 => \A i \in 1..NumPoints : ret.val.a[i] = 0

\* An axis was built for the time scale 0.5 while the instrument reported
\* the time offset -1.
AxisBuiltWithOffset ==
    /\ Ended("getTimeAxis")
    /\ ret.exc = ""
    /\ float(io[2].data).val = Rat(1, 2)
    /\ float(io[4].data).val = RInt(-1)
    /\ IsAt(ret.val, 1, RInt(-3))

\* An axis built for the time scale 1.
AxisForUnitScale ==
    /\ Ended("getTimeAxis")
    /\ ret.exc = ""
    /\ float(io[2].data).val = RInt(1)

Session == <<obj, fd, rel, name, files.stdout>>

\* C17: run() and stop() each make exactly one system call, the write of
\* :RUN, respectively :STOP, return normally and change nothing the program
\* keeps between calls; and no operation other than run, stop and a write or
\* query given the command by its caller ever writes :RUN or :STOP.
RunStopFrame ==
    /\ [][pc = "idle" /\ pc' = "ret" /\ call'.op \in {"run", "stop"} =>
             /\ Len(io') = 1
             /\ io'[1].op = "write"
             /\ io'[1].cmd = IF call'.op = "run" THEN ":RUN" ELSE ":STOP"
             /\ ret' = NoRet
             /\ Session' = Session
             /\ dev' = dev]_vars
    /\ [](pc = "ret" /\ call.op \notin {"run", "stop", "write", "query"} =>
             \A i \in 1..Len(io) : io[i].cmd \notin {":RUN", ":STOP"})

\* A stop() whose write failed has returned.
StopWriteFailed ==
    /\ Ended("stop")
    /\ io[1].cmd = ":STOP"
    /\ io[1].err # 0
    /\ fd = "open"

\* The three commands that fetch channel k.
Fetch(k) == <<WavCommand(k), ScalCommand(k), OffsCommand(k)>>

\* The commands of a writeWaveformToFile with selector chan, in order.
TableCommands(chan) ==
    <<":TIM:SCAL?", ":TIM:OFFS?">>
    \o (IF chan \in {PyInt(1), PyInt(3), PyStr("BOTH")} THEN Fetch(1) ELSE <<>>)
    \o (IF chan \in {PyInt(2), PyInt(3), PyStr("BOTH")} THEN Fetch(2) ELSE <<>>)

\* C18: a writeWaveformToFile that returns has written :TIM:SCAL?,
\* :TIM:OFFS?, then :WAV:DATA? CHAN1 (read with 9000 bytes), :CHAN1:SCAL?,
\* :CHAN1:OFFS? if the selector is 1, 3 or 'BOTH', then the same for channel
\* 2 if the selector is 2, 3 or 'BOTH', and nothing else; one that raises has
\* written a beginning of that sequence. So no command names a channel that
\* is not selected.
TableCommandOrder ==
    Ended("writeWaveformToFile") =>
        /\ IsPrefix(Written, TableCommands(call.args[2]))
        /\ ret.exc = "" => Written = TableCommands(call.args[2])
        /\ \A i \in 1..Len(io) :
              io[i].op = "write" /\ io[i].cmd \in {WavCommand(1), WavCommand(2)} =>
                  /\ i < Len(io)
                  /\ io[i + 1].op = "read"
                  /\ io[i + 1].len = RawDataLength

\* A writeWaveformToFile with the selector 'BOTH' has returned after
\* fetching channel 1 and then channel 2.
BothChannelsFetched ==
    /\ Ended("writeWaveformToFile")
    /\ call.args[2] = PyStr("BOTH")
    /\ ret.exc = ""
    /\ SubSeq(Written, 3, 8) = Fetch(1) \o Fetch(2)

\* C19: when the write of a query or of readRawData fails, the failure is
\* logged and not raised, exactly one read still follows, with the usual
\* length, and the caller gets what that read gave (empty when nothing
\* came), as a normal result.
ReadFollowsFailedWrite ==
    pc = "ret" /\ call.op \in {"query", "readRawData"} /\ io[1].err # 0 =>
        /\ io[1].op = "write"
        /\ log[1] = <<"Write Error: ", io[1].err>>
        /\ Len(io) = 2
        /\ io[2].op = "read"
        /\ io[2].len = IF call.op = "query" THEN call.args[2] ELSE RawDataLength
        /\ ret = [exc |-> "", val |-> io[2].data]

\* A readRawData whose write failed read once and returned the empty
\* response.
RawReadAfterFailedWrite ==
    /\ Ended("readRawData")
    /\ io[1].err # 0
    /\ Len(io) = 2
    /\ ret = [exc |-> "", val |-> <<>>]

\* C20: when writeWaveformToFile ends, normally or by an exception, the file
\* it opened for a non-blank filename is closed; and after a call with a
\* blank filename that wrote to standard output, standard output is still
\* open.
OutputStreamsLeftRight ==
    Ended("writeWaveformToFile") =>
        /\ files.out # "open"
        /\ call.args[1] = "" /\ files.lines # <<>> => files.stdout = "open"
====
